---- MODULE Spec2Model ----
(***************************************************************************)
(* Student Management System (src/main.py): the students table, the table  *)
(* widget that displays it, and the dialog handlers that change both.       *)
(*                                                                          *)
(* Text is a sequence of one-character strings, so that str(), strip(),     *)
(* case folding and SQLite's column affinity are computed, not assumed.     *)
(* Row and column positions are 0-based, as in the Qt calls of the source.  *)
(***************************************************************************)
EXTENDS Integers, Sequences, FiniteSets, TLC

(* ------------------------------ bounds --------------------------------- *)

\* Most rows the students table holds in the model.
MaxRows == 2

\* Largest rowid the model lets the store assign: rowids grow without limit
\* when low rows are deleted and new ones inserted.
MaxId == MaxRows

(* ------------------------------- text ---------------------------------- *)

Digits == <<"0", "1", "2", "3", "4", "5", "6", "7", "8", "9">>

UpperCase == <<"A", "B", "M", "P">>

LowerCase == <<"a", "b", "m", "p">>

\* The four items of the course combo box.
Courses ==
    << <<"B", "i", "o", "l", "o", "g", "y">>,
       <<"M", "a", "t", "h">>,
       <<"A", "s", "t", "r", "o", "n", "o", "m", "y">>,
       <<"P", "h", "y", "s", "i", "c", "s">> >>

\* Texts the user types into a name field.
NameInputs == { <<>>, <<" ">>, <<"A", "n", "n">> }

\* Texts the user types into a mobile field.
MobileInputs == { <<>>, <<"5">> }

\* Items the user picks in the course combo box.
CourseInputs == { Courses[1], Courses[2] }

\* Texts the user types into the search field.
SearchInputs ==
    { <<>>, <<"A", "n", "n">>, <<"a", "n", "n">>, <<"A", "n">>,
      <<"M", "a", "t", "h">>, <<"1">> }

\* str(column_data) of an integer column: its decimal digits.
RECURSIVE StrInt(_)
StrInt(n) ==
    IF n < 10 THEN <<Digits[n + 1]>>
    ELSE StrInt(n \div 10) \o <<Digits[(n % 10) + 1]>>

IsDigit(c) == \E d \in 1..10 : Digits[d] = c

DigitVal(c) == (CHOOSE d \in 1..10 : Digits[d] = c) - 1

\* A text that SQLite's INTEGER affinity converts to an integer.
LooksLikeInteger(s) == Len(s) > 0 /\ \A i \in 1..Len(s) : IsDigit(s[i])

RECURSIVE ParseInt(_)
ParseInt(s) ==
    IF Len(s) = 0 THEN 0
    ELSE ParseInt(SubSeq(s, 1, Len(s) - 1)) * 10 + DigitVal(s[Len(s)])

\* str.strip(): leading and trailing blanks removed.
RECURSIVE Strip(_)
Strip(s) ==
    IF Len(s) = 0 THEN s
    ELSE IF s[1] = " " THEN Strip(Tail(s))
    ELSE IF s[Len(s)] = " " THEN Strip(SubSeq(s, 1, Len(s) - 1))
    ELSE s

\* Case folding of one character, as Qt's case-insensitive comparison does.
FoldChar(c) ==
    IF \E i \in 1..Len(UpperCase) : UpperCase[i] = c
    THEN LowerCase[CHOOSE i \in 1..Len(UpperCase) : UpperCase[i] = c]
    ELSE c

FoldCase(s) == [i \in 1..Len(s) |-> FoldChar(s[i])]

(* ------------------------------ the store ------------------------------ *)

RowIds(d) == { d[i].id : i \in 1..Len(d) }

SetMax(S) == CHOOSE x \in S : \A y \in S : y <= x

\* The rowid SQLite gives a row inserted without one into a table declared
\* id INTEGER PRIMARY KEY (no AUTOINCREMENT): one more than the largest
\* rowid now in the table, 1 when the table is empty.
NextRowid(d) == IF Len(d) = 0 THEN 1 ELSE SetMax(RowIds(d)) + 1

\* WHERE id = ? with the parameter bound as Python str: the column's
\* INTEGER affinity converts a numeric text before comparing.
IdEquals(rowid, param) == LooksLikeInteger(param) /\ ParseInt(param) = rowid

\* SELECT * FROM students
SqlSelectAll(d) == d

\* SELECT name, course, mobile FROM students WHERE id = ?
SqlSelectById(d, sid) ==
    LET hit == SelectSeq(d, LAMBDA r : IdEquals(r.id, sid))
    IN  [i \in 1..Len(hit) |-> <<hit[i].name, hit[i].course, hit[i].mobile>>]

\* INSERT INTO students (name, course, mobile) VALUES (?, ?, ?)
SqlInsert_dropCourse(d, name, course, mobile) ==
    Append(d, [id |-> NextRowid(d), name |-> name,
               course |-> Courses[1], mobile |-> mobile])

SqlInsert(d, name, course, mobile) ==
    Append(d, [id |-> NextRowid(d), name |-> name,
               course |-> course, mobile |-> mobile])

\* UPDATE students SET name = ?, course = ?, mobile = ? WHERE id = ?
SqlUpdate_noWhere(d, name, course, mobile, sid) ==
    [i \in 1..Len(d) |->
        [d[i] EXCEPT !.name = name, !.course = course, !.mobile = mobile]]

SqlUpdate(d, name, course, mobile, sid) ==
    [i \in 1..Len(d) |->
        IF IdEquals(d[i].id, sid)
        THEN [d[i] EXCEPT !.name = name, !.course = course, !.mobile = mobile]
        ELSE d[i]]

\* DELETE FROM students WHERE id = ?
SqlDelete(d, sid) == SelectSeq(d, LAMBDA r : ~IdEquals(r.id, sid))

(* ------------------------------ the view ------------------------------- *)

\* The rows load_data builds from a query result: every column through str().
LoadData_dropLast(result) ==
    [i \in 1..(Len(result) - 1) |->
        <<StrInt(result[i].id), result[i].name, result[i].course, result[i].mobile>>]

LoadData(result) ==
    [i \in 1..Len(result) |->
        <<StrInt(result[i].id), result[i].name, result[i].course, result[i].mobile>>]

\* table.findItems(text, MatchFixedString): the cells of every column whose
\* text equals `text` without regard to case, as <<row, column>>.
FindItems(t, text) ==
    { <<r, c>> \in (0..(Len(t) - 1)) \X (0..3) :
        FoldCase(t[r + 1][c + 1]) = FoldCase(text) }

\* The rows search_student selects: item(item.row(), 1) of every found cell.
SearchSelection(t, text) == { rc[1] : rc \in FindItems(t, text) }

(* ------------------------------ the state ------------------------------ *)

VARIABLES
    phase,              \* "init" before window.load_data(), "running" in the
                        \* event loop, "crashed" once an exception escaped
    db,                 \* the students table, in rowid order
    table,              \* the rows of MainWindow.table, each <<id, name, course, mobile>> as text
    selection,          \* the selected row positions of MainWindow.table
    buttons,            \* <<sid>> captured by the status-bar buttons, <<>> when none
    dialog,             \* the modal dialog whose exec() is running
    errbox,             \* a "Database Error" message box is showing
    openConnections,    \* sqlite3 connections opened by query() and not yet closed
    last,               \* the last handler run, its outcome and the texts it read
    everIds,            \* history: every rowid the store has assigned
    createdSinceClick   \* history: rowids assigned since the last row click

vars == <<phase, db, table, selection, buttons, dialog, errbox,
          openConnections, last, everIds, createdSinceClick>>

NoDialog == [kind |-> "none", sid |-> <<>>]

Did(op, outcome, args) == [op |-> op, outcome |-> outcome, args |-> args]

\* No handler has reported an outcome since the last window or dialog opened.
Nothing == Did("none", "none", <<>>)

\* The state after MainWindow() is constructed: an empty table widget, no
\* status-bar buttons, and the database file with an empty students table.
Init ==
    /\ phase = "init"
    /\ db = <<>>
    /\ table = <<>>
    /\ selection = {}
    /\ buttons = <<>>
    /\ dialog = NoDialog
    /\ errbox = FALSE
    /\ openConnections = 0
    /\ last = Nothing
    /\ everIds = {}
    /\ createdSinceClick = {}

\* The event loop is free to dispatch a handler of the main window.
Idle == phase = "running" /\ ~errbox /\ dialog.kind = "none"

\* The event loop is free to dispatch a handler of the open dialog.
InDialog(kind) == phase = "running" /\ ~errbox /\ dialog.kind = kind

(* --------------------------- the entry point --------------------------- *)

\* window.load_data() at module level: a DatabaseError is not caught.
Startup ==
    /\ phase = "init"
    /\ \E fault \in BOOLEAN :
        IF fault
        THEN /\ phase' = "crashed"
             /\ last' = Did("startup", "uncaught", <<>>)
             /\ UNCHANGED <<table, selection>>
        ELSE /\ phase' = "running"
             /\ table' = LoadData(SqlSelectAll(db))
             /\ selection' = {}
             /\ last' = Did("startup", "success", <<>>)
    /\ UNCHANGED <<db, buttons, dialog, errbox, openConnections,
                   everIds, createdSinceClick>>

(* ----------------------------- main window ----------------------------- *)

\* MainWindow.cell_clicked: the click selects the row; new buttons capture
\* the text of the row's id cell and replace the buttons shown before.
CellClicked ==
    /\ Idle
    /\ \E row \in 0..(Len(table) - 1) :
        /\ buttons' = <<table[row + 1][1]>>
        /\ selection' = {row}
    /\ createdSinceClick' = {}
    /\ last' = Nothing
    /\ UNCHANGED <<phase, db, table, dialog, errbox, openConnections, everIds>>

\* MainWindow.insert: InsertDialog().exec()
OpenInsert ==
    /\ Idle
    /\ dialog' = [kind |-> "insert", sid |-> <<>>]
    /\ last' = Nothing
    /\ UNCHANGED <<phase, db, table, selection, buttons, errbox,
                   openConnections, everIds, createdSinceClick>>

\* MainWindow.search: SearchDialog().exec()
OpenSearch ==
    /\ Idle
    /\ dialog' = [kind |-> "search", sid |-> <<>>]
    /\ last' = Nothing
    /\ UNCHANGED <<phase, db, table, selection, buttons, errbox,
                   openConnections, everIds, createdSinceClick>>

\* The user closes the insert or the search dialog: exec() returns and the
\* static method returns with it.
CloseDialog ==
    /\ \/ InDialog("insert")
       \/ InDialog("search")
    /\ dialog' = NoDialog
    /\ last' = Nothing
    /\ UNCHANGED <<phase, db, table, selection, buttons, errbox,
                   openConnections, everIds, createdSinceClick>>

\* The Edit Record button: open_edit_dialog(sid) up to dialog.exec().
\* EditDialog.__init__ reads the record; on a DatabaseError or when no row
\* has the id it returns before the fields and the Submit button exist, and
\* exec() then shows a dialog with nothing in it.
PressEdit ==
    /\ Idle
    /\ Len(buttons) = 1
    /\ \E fault \in BOOLEAN :
        LET sid == buttons[1]
            result == SqlSelectById(db, sid)
        IN  IF fault
            THEN /\ errbox' = TRUE
                 /\ openConnections' = openConnections + 1
                 /\ dialog' = [kind |-> "editEmpty", sid |-> sid]
                 /\ last' = Did("openEdit", "dberror", <<>>)
            ELSE IF Len(result) = 0
            THEN /\ dialog' = [kind |-> "editEmpty", sid |-> sid]
                 /\ last' = Did("openEdit", "notfound", <<>>)
                 /\ UNCHANGED <<errbox, openConnections>>
            ELSE /\ dialog' = [kind |-> "edit", sid |-> sid]
                 /\ last' = Did("openEdit", "success", <<>>)
                 /\ UNCHANGED <<errbox, openConnections>>
    /\ UNCHANGED <<phase, db, table, selection, buttons, everIds,
                   createdSinceClick>>

\* The Delete Record button: open_delete_dialog(sid) up to dialog.exec().
PressDelete ==
    /\ Idle
    /\ Len(buttons) = 1
    /\ dialog' = [kind |-> "delete", sid |-> buttons[1]]
    /\ last' = Nothing
    /\ UNCHANGED <<phase, db, table, selection, buttons, errbox,
                   openConnections, everIds, createdSinceClick>>

\* What follows dialog.exec() in open_edit_dialog and open_delete_dialog:
\* self.load_data(), outside any try. query() raises before setRowCount(0),
\* so a fault leaves the rows as they were and the DatabaseError escapes
\* the slot.
ReloadAfterExec(d, shown, selected, fault) ==
    /\ phase' = IF fault THEN "crashed" ELSE "running"
    /\ table' = IF fault THEN shown ELSE LoadData(SqlSelectAll(d))
    /\ selection' = IF fault THEN selected ELSE {}

\* The user closes an edit or a delete dialog without a successful submit.
CloseButtonDialog ==
    /\ \/ InDialog("edit")
       \/ InDialog("editEmpty")
       \/ InDialog("delete")
    /\ dialog' = NoDialog
    /\ \E fault \in BOOLEAN :
        /\ ReloadAfterExec(db, table, selection, fault)
        /\ last' = Did("close", IF fault THEN "uncaught" ELSE "success", <<>>)
    /\ UNCHANGED <<db, buttons, errbox, openConnections, everIds,
                   createdSinceClick>>

\* The user dismisses a "Database Error" box: the except block ends, the
\* exception and the traceback that kept query()'s frame alive are dropped,
\* and with them the connection.
DismissError ==
    /\ phase = "running"
    /\ errbox
    /\ errbox' = FALSE
    /\ openConnections' = 0
    /\ UNCHANGED <<phase, db, table, selection, buttons, dialog, last,
                   everIds, createdSinceClick>>

(* --------------------------- dialog handlers --------------------------- *)

\* In each handler faultAt says which of its query() calls meets a storage
\* fault: 0 for none, else the first, second or third it issues.

\* InsertDialog.add_student (Submit). The check is `not name or not mobile`
\* on the texts as typed. After the INSERT is committed load_data() runs
\* inside the same try.
AddStudent ==
    /\ InDialog("insert")
    /\ \E name \in NameInputs, course \in CourseInputs, mobile \in MobileInputs :
        LET args == <<name, course, mobile>>
            after == SqlInsert(db, name, course, mobile)
            assigned == RowIds(after) \ RowIds(db)
        IN  IF Len(name) = 0 \/ Len(mobile) = 0
            THEN /\ last' = Did("insert", "blocked", <<>>)
                 /\ UNCHANGED <<db, table, selection, dialog, errbox,
                                openConnections, everIds, createdSinceClick>>
            ELSE /\ Len(db) < MaxRows
                 /\ NextRowid(db) <= MaxId
                 /\ \E faultAt \in 0..2 :
                    IF faultAt = 1
                    THEN /\ errbox' = TRUE
                         /\ openConnections' = openConnections + 1
                         /\ last' = Did("insert", "dberror", <<>>)
                         /\ UNCHANGED <<db, table, selection, dialog,
                                        everIds, createdSinceClick>>
                    ELSE /\ db' = after
                         /\ everIds' = everIds \cup assigned
                         /\ createdSinceClick' =
                                IF Len(buttons) = 0 THEN {}
                                ELSE createdSinceClick \cup assigned
                         /\ IF faultAt = 2
                            THEN /\ errbox' = TRUE
                                 /\ openConnections' = openConnections + 1
                                 /\ last' = Did("insert", "dberror", <<>>)
                                 /\ UNCHANGED <<table, selection, dialog>>
                            ELSE /\ table' = LoadData(SqlSelectAll(after))
                                 /\ selection' = {}
                                 /\ dialog' = NoDialog
                                 /\ last' = Did("insert", "success", args)
                                 /\ UNCHANGED <<errbox, openConnections>>
    /\ UNCHANGED <<phase, buttons>>

\* EditDialog.update_student (Submit). The check strips both texts. After
\* the UPDATE is committed load_data() runs inside the same try; self.close()
\* ends exec(), and open_edit_dialog then calls load_data() once more.
UpdateStudent ==
    /\ InDialog("edit")
    /\ \E name \in NameInputs, course \in CourseInputs, mobile \in MobileInputs :
        LET after == SqlUpdate(db, name, course, mobile, dialog.sid)
        IN  IF Len(Strip(name)) = 0 \/ Len(Strip(mobile)) = 0
            THEN /\ last' = Did("update", "blocked", <<>>)
                 /\ UNCHANGED <<phase, db, table, selection, dialog, errbox,
                                openConnections>>
            ELSE \E faultAt \in 0..3 :
                 IF faultAt = 1
                 THEN /\ errbox' = TRUE
                      /\ openConnections' = openConnections + 1
                      /\ last' = Did("update", "dberror", <<>>)
                      /\ UNCHANGED <<phase, db, table, selection, dialog>>
                 ELSE /\ db' = after
                      /\ IF faultAt = 2
                         THEN /\ errbox' = TRUE
                              /\ openConnections' = openConnections + 1
                              /\ last' = Did("update", "dberror", <<>>)
                              /\ UNCHANGED <<phase, table, selection, dialog>>
                         ELSE /\ dialog' = NoDialog
                              /\ ReloadAfterExec(after, LoadData(SqlSelectAll(after)),
                                                 {}, faultAt = 3)
                              /\ last' = Did("update",
                                             IF faultAt = 3 THEN "uncaught"
                                             ELSE "success", <<>>)
                              /\ UNCHANGED <<errbox, openConnections>>
    /\ UNCHANGED <<buttons, everIds, createdSinceClick>>

\* DeleteDialog.delete_student (Yes). After the DELETE is committed
\* load_data() runs inside the same try; self.close() ends exec(), and
\* open_delete_dialog then calls load_data() once more.
DeleteStudent ==
    /\ InDialog("delete")
    /\ \E faultAt \in 0..3 :
        LET after == SqlDelete(db, dialog.sid)
        IN  IF faultAt = 1
            THEN /\ errbox' = TRUE
                 /\ openConnections' = openConnections + 1
                 /\ last' = Did("delete", "dberror", <<>>)
                 /\ UNCHANGED <<phase, db, table, selection, dialog>>
            ELSE /\ db' = after
                 /\ IF faultAt = 2
                    THEN /\ errbox' = TRUE
                         /\ openConnections' = openConnections + 1
                         /\ last' = Did("delete", "dberror", <<>>)
                         /\ UNCHANGED <<phase, table, selection, dialog>>
                    ELSE /\ dialog' = NoDialog
                         /\ ReloadAfterExec(after, LoadData(SqlSelectAll(after)),
                                            {}, faultAt = 3)
                         /\ last' = Did("delete",
                                        IF faultAt = 3 THEN "uncaught"
                                        ELSE "success", <<>>)
                         /\ UNCHANGED <<errbox, openConnections>>
    /\ UNCHANGED <<buttons, everIds, createdSinceClick>>

\* SearchDialog.search_student (Search). The rows of SELECT * FROM students
\* WHERE name = ? are only printed; the selection comes from findItems on
\* the table widget.
SearchStudent ==
    /\ InDialog("search")
    /\ \E name \in SearchInputs :
        LET found == SearchSelection(table, name)
        IN  IF Len(name) = 0
            THEN /\ last' = Did("search", "blocked", <<>>)
                 /\ UNCHANGED <<selection, dialog, errbox, openConnections>>
            ELSE \E faultAt \in 0..1 :
                 IF faultAt = 1
                 THEN /\ errbox' = TRUE
                      /\ openConnections' = openConnections + 1
                      /\ last' = Did("search", "dberror", <<>>)
                      /\ UNCHANGED <<selection, dialog>>
                 ELSE /\ selection' = found
                      /\ dialog' = IF found # {} THEN NoDialog ELSE dialog
                      /\ last' = Did("search",
                                     IF found # {} THEN "selected" ELSE "notfound",
                                     <<name>>)
                      /\ UNCHANGED <<errbox, openConnections>>
    /\ UNCHANGED <<phase, db, table, buttons, everIds, createdSinceClick>>

Next ==
    \/ Startup
    \/ CellClicked
    \/ OpenInsert
    \/ OpenSearch
    \/ CloseDialog
    \/ PressEdit
    \/ PressDelete
    \/ CloseButtonDialog
    \/ DismissError
    \/ AddStudent
    \/ UpdateStudent
    \/ DeleteStudent
    \/ SearchStudent

Spec == Init /\ [][Next]_vars

(* ---------------------------- the store alone -------------------------- *)
(* DatabaseConnection.query applied to the statements the program issues,  *)
(* with any id as the target: the dialogs never submit an UPDATE for an id  *)
(* that EditDialog.__init__ did not find.                                   *)

\* The id texts a caller passes: those of the rows the table can hold and
\* one beyond them.
SidInputs == { StrInt(i) : i \in 1..(MaxId + 1) }

\* The texts a caller passes for the required fields: the dialogs pass
\* none that is empty.
RequiredNameInputs == NameInputs \ { <<>> }

RequiredMobileInputs == MobileInputs \ { <<>> }

StoreCreate ==
    /\ Len(db) < MaxRows
    /\ NextRowid(db) <= MaxId
    /\ \E name \in RequiredNameInputs, course \in CourseInputs, mobile \in RequiredMobileInputs,
          fault \in BOOLEAN :
        LET after == SqlInsert(db, name, course, mobile)
        IN  /\ db' = IF fault THEN db ELSE after
            /\ everIds' = everIds \cup (RowIds(db') \ RowIds(db))
            /\ last' = Did("create", IF fault THEN "dberror" ELSE "success", <<>>)
    /\ UNCHANGED <<phase, table, selection, buttons, dialog, errbox,
                   openConnections, createdSinceClick>>

StoreUpdate ==
    /\ \E sid \in SidInputs, name \in RequiredNameInputs, course \in CourseInputs,
          mobile \in RequiredMobileInputs, fault \in BOOLEAN :
        /\ db' = IF fault THEN db ELSE SqlUpdate(db, name, course, mobile, sid)
        /\ last' = Did("update", IF fault THEN "dberror" ELSE "success",
                       <<sid, fault>>)
    /\ UNCHANGED <<phase, table, selection, buttons, dialog, errbox,
                   openConnections, everIds, createdSinceClick>>

StoreDelete ==
    /\ \E sid \in SidInputs, fault \in BOOLEAN :
        /\ db' = IF fault THEN db ELSE SqlDelete(db, sid)
        /\ last' = Did("delete", IF fault THEN "dberror" ELSE "success",
                       <<sid, fault>>)
    /\ UNCHANGED <<phase, table, selection, buttons, dialog, errbox,
                   openConnections, everIds, createdSinceClick>>

StoreNext ==
    \/ StoreCreate
    \/ StoreUpdate
    \/ StoreDelete

StoreSpec == Init /\ [][StoreNext]_vars

(* ------------------------------ properties ----------------------------- *)

\* A displayed row shows a record: the id cell reads back as the record's
\* id and the three text cells equal its fields.
Shows(row, rec) ==
    /\ LooksLikeInteger(row[1])
    /\ ParseInt(row[1]) = rec.id
    /\ row[2] = rec.name
    /\ row[3] = rec.course
    /\ row[4] = rec.mobile

\* The displayed rows are the persisted records, one row per record, in
\* store order.
ViewMatches(t, d) ==
    /\ Len(t) = Len(d)
    /\ \A i \in 1..Len(d) : Shows(t[i], d[i])

Mutations == {"insert", "update", "delete"}

\* C1. View/store consistency: while the application runs, every startup
\* load and every insert, update or delete that completes successfully
\* leaves the table showing exactly the persisted records in store order,
\* and every other handler that does not end in a DatabaseError (search,
\* row click, opening or closing a dialog, a blocked submission) keeps a
\* table that shows them showing them.
C1_ViewMatchesStore ==
    [][ ( /\ phase' = "running"
          /\ \/ /\ last'.op \in Mutations \cup {"startup"}
                /\ last'.outcome = "success"
             \/ /\ ViewMatches(table, db)
                /\ last'.outcome # "dberror" )
        => ViewMatches(table', db') ]_vars

\* C1 witness: a successful edit has completed on a table of two records
\* and both are displayed.
C1_Witness ==
    /\ phase = "running"
    /\ last.op = "update"
    /\ last.outcome = "success"
    /\ Len(db) = 2
    /\ ViewMatches(table, db)

\* C2. Id stability: no insert assigns a rowid that any record, present or
\* deleted, has held before, and no update changes the id of a record.
C2_IdNeverReused ==
    [][ /\ (RowIds(db') \ RowIds(db)) \cap everIds = {}
        /\ last'.op = "update" =>
             /\ Len(db') = Len(db)
             /\ \A i \in 1..Len(db) : db'[i].id = db[i].id ]_vars

\* C3. Search exactness: after a search for a non-empty text has run, the
\* selected rows are exactly the positions of the rows whose name cell is
\* string-equal to the text.
C3_SearchSelectsExactNames ==
    ( /\ last.op = "search"
      /\ last.outcome \in {"selected", "notfound"} )
    => selection =
         { r \in 0..(Len(table) - 1) : table[r + 1][2] = last.args[1] }

\* C4. Required-field validation: every persisted record has a name and a
\* mobile that are non-empty after trimming.
C4_RequiredFieldsPersisted ==
    \A i \in 1..Len(db) :
        /\ Len(Strip(db[i].name)) > 0
        /\ Len(Strip(db[i].mobile)) > 0

\* C5. No partial state change on storage error: an insert, update or
\* delete handler that ends by reporting a DatabaseError leaves the
\* persisted records as they were before it ran.
C5_ErrorLeavesStoreUnchanged ==
    [][ ( /\ last'.op \in Mutations
          /\ last'.outcome = "dberror" )
        => db' = db ]_vars

\* C6. Storage errors are always surfaced: no DatabaseError escapes the
\* startup load or a handler uncaught.
C6_NoUncaughtDatabaseError ==
    /\ phase # "crashed"
    /\ last.outcome # "uncaught"

\* C7. Create round-trip: a successful create followed by read_all yields
\* the prior records unchanged plus exactly one new record, which carries
\* the submitted name, course and mobile and an id no other record of the
\* result has.
C7_CreateRoundTrip ==
    [][ ( /\ last'.op = "insert"
          /\ last'.outcome = "success" )
        => /\ Len(db') = Len(db) + 1
           /\ SubSeq(db', 1, Len(db)) = db
           /\ <<db'[Len(db')].name, db'[Len(db')].course, db'[Len(db')].mobile>>
                = last'.args
           /\ db'[Len(db')].id \notin RowIds(db)
           /\ ViewMatches(table', db') ]_vars

\* C7 witness: a create has succeeded on a table that already held a
\* record, and the new record carries a course other than the default.
C7_Witness ==
    /\ last.op = "insert"
    /\ last.outcome = "success"
    /\ Len(db) = 2
    /\ db[2].course = Courses[2]
    /\ db[2].id # db[1].id

\* No row of the table has the id the text names.
AbsentId(d, sid) == \A i \in 1..Len(d) : ~IdEquals(d[i].id, sid)

\* C8. Mutation on an absent id is a silent no-op: an update or a delete
\* whose target id is not in the table leaves the persisted records
\* unchanged, and raises DatabaseError only when the storage itself faults.
C8_AbsentIdIsNoOp ==
    [][ ( /\ last'.op \in {"update", "delete"}
          /\ AbsentId(db, last'.args[1]) )
        => /\ db' = db
           /\ last'.outcome = "dberror" => last'.args[2] ]_vars

\* C8 witness: an update naming an id that no record has was run on a
\* non-empty table without a storage fault.
C8_Witness ==
    /\ last.op = "update"
    /\ last.outcome = "success"
    /\ Len(db) > 0
    /\ AbsentId(db, last.args[1])

\* C9. Connection scoping: no connection that query() opened is still open
\* once the call has returned or raised.
C9_NoConnectionHeld == openConnections = 0

\* C10. Status-bar buttons target only the clicked record: a delete
\* confirmed through the Delete Record button removes no record other than
\* the one whose id the clicked row showed, and never a record created
\* after the click.
C10_DeleteTargetsClickedRecord ==
    [][ ( /\ last'.op = "delete"
          /\ Len(buttons) = 1 )
        => /\ \A id \in RowIds(db) \ RowIds(db') : IdEquals(id, buttons[1])
           /\ (RowIds(db) \ RowIds(db')) \cap createdSinceClick = {} ]_vars

====
